---- MODULE Spec2Model ----
(***************************************************************************)
(* gosyntect: the protocol client (New, Client.url, Client.Highlight,      *)
(* response.toSuccessResponse) and the command-line adapter (main).        *)
(*                                                                         *)
(* Go strings whose bytes matter (the server address, the submitted code)  *)
(* are sequences of one-character strings.  Go strings that are only       *)
(* compared or passed along (Data, DetectedLanguage, Error, Code, scope    *)
(* names, the theme, file names) are TLA+ strings; "" is the empty string. *)
(* Printed text is a sequence of lines, a line a sequence of tokens, each  *)
(* token a character or one of those opaque strings.                       *)
(*                                                                         *)
(* The remote service and the HTTP transport are the environment: they     *)
(* may answer with any status and any body of the bounded sets below.      *)
(***************************************************************************)
EXTENDS Integers, Sequences, FiniteSets, TLC

VARIABLES
    pc,          \* where the program is: see PCs
    caller,      \* "none", "main" (the command-line adapter) or "lib" (a library caller)
    server,      \* the address handed to New
    client,      \* the Client: [made, syntectServer]
    query,       \* the Query of the Highlight call
    ctx,         \* the context handed to Highlight: "Background" or "Caller"
    ctxState,    \* the state of the caller's cancellable context
    req,         \* the http.Request built by Highlight
    tr,          \* what client.Do returned: an error or a response (status, body)
    doneCtx,     \* the state of the Highlight call's context when client.Do returned
    decoded,     \* whether the body went through the JSON decoder: "no", "ok", "failed"
    resp,        \* Highlight's first result (*Response)
    err,         \* Highlight's second result (error)
    out          \* the lines main wrote to standard output

vars == <<pc, caller, server, client, query, ctx, ctxState, req, tr, doneCtx,
          decoded, resp, err, out>>

----------------------------------------------------------------------------
(* Bounds of the model *)

MaxSlashes == 2
MaxNames == 3
MaxRegions == 2

(* net/http's StatusBadRequest *)
StatusBadRequest == 400

----------------------------------------------------------------------------
(* Text helpers: strings.HasPrefix, strings.HasSuffix, strings.TrimSuffix *)

HasPrefix(s, prefix) ==
    /\ Len(s) >= Len(prefix)
    /\ SubSeq(s, 1, Len(prefix)) = prefix

HasSuffix(s, suffix) ==
    /\ Len(s) >= Len(suffix)
    /\ SubSeq(s, Len(s) - Len(suffix) + 1, Len(s)) = suffix

TrimSuffix(s, suffix) ==
    IF HasSuffix(s, suffix) THEN SubSeq(s, 1, Len(s) - Len(suffix)) ELSE s

SeqsUpTo(S, n) == UNION {[1..k -> S] : k \in 0..n}

----------------------------------------------------------------------------
(* The inputs *)

Http == <<"h", "t", "t", "p", ":", "/", "/">>
Https == <<"h", "t", "t", "p", "s", ":", "/", "/">>
Host == <<"h">>
Slashes(n) == [i \in 1..n |-> "/"]

\* server arguments of the command line: with and without a scheme
Servers == {scheme \o Host \o Slashes(n) : scheme \in {Http, Https, <<>>}, n \in 0..MaxSlashes}
\* addresses a library caller configures
LibServers == {Http \o Host \o Slashes(n) : n \in 0..MaxSlashes}

Themes == {"", "InspiredGitHub"}

\* files of the command line and what ioutil.ReadFile gives for them
Files == {"x.go", "q.go", "missing.go"}
FileExists(f) == f # "missing.go"
FileContents(f) ==
    IF f = "x.go" THEN <<"/", "/", " ", "x">>
    ELSE <<"\"", "\\", "a", "b">>

\* flag.Args(): three or two positional arguments
ArgLists ==
    {<<s, t, f>> : s \in Servers, t \in Themes, f \in Files}
        \cup {<<s, f>> : s \in Servers, f \in Files}

ScopeNameList == <<"comment", "string", "keyword", "meta", "source">>
NameLists == {SubSeq(ScopeNameList, 1, n) : n \in 0..MaxNames}

RegionSamples ==
    { [Offset |-> 0, Length |-> 3, Scopes |-> <<1>>],
      [Offset |-> 1, Length |-> 1, Scopes |-> <<0, 2>>],
      [Offset |-> 3, Length |-> 2, Scopes |-> <<>>] }
RegionLists == SeqsUpTo(RegionSamples, MaxRegions)

Codes == {"", "invalid_theme", "Invalid_Theme", "resource_not_found", "panic", " panic", "timeout"}

----------------------------------------------------------------------------
(* type response: the wire record *)

ZeroRecord ==
    [Data |-> "", Plaintext |-> FALSE, DetectedLanguage |-> "",
     ScopifiedScopeNames |-> <<>>, ScopifiedRegions |-> <<>>,
     Error |-> "", Code |-> ""]

\* bodies without an error text: every success field varies
SuccessBodies ==
    [Data : {"", "<b>"}, Plaintext : BOOLEAN, DetectedLanguage : {"", "Go"},
     ScopifiedScopeNames : NameLists, ScopifiedRegions : RegionLists,
     Error : {""}, Code : {"", "panic"}]

\* bodies with an error text
ErrorBodies ==
    [Data : {"", "<b>"}, Plaintext : {FALSE}, DetectedLanguage : {""},
     ScopifiedScopeNames : {<<>>}, ScopifiedRegions : {<<>>},
     Error : {"boom"}, Code : Codes]

Bodies == SuccessBodies \cup ErrorBodies

Statuses == {200, StatusBadRequest}

NoTransport == [kind |-> "none", cause |-> "", status |-> 0, valid |-> FALSE, body |-> ZeroRecord]
TransportError(cause) == [NoTransport EXCEPT !.kind = "err", !.cause = cause]

\* what client.Do can return while the request's context is live
Outcomes ==
    {TransportError("network")}
        \cup {[kind |-> "resp", cause |-> "", status |-> s, valid |-> TRUE, body |-> b] :
                s \in Statuses, b \in Bodies}
        \cup {[kind |-> "resp", cause |-> "", status |-> s, valid |-> FALSE, body |-> ZeroRecord] :
                s \in Statuses}

----------------------------------------------------------------------------
(* errors *)

NoTarget == <<>>
NilErr == [cause |-> "nil", error |-> "", code |-> "", wrapped |-> FALSE, label |-> "", target |-> NoTarget]
IsNil(e) == e.cause = "nil"

\* errors.New / fmt.Errorf
NewErr(cause) == [NilErr EXCEPT !.cause = cause]
\* errors.Wrap(e, label + target)
Wrap(e, label, target) == [e EXCEPT !.wrapped = TRUE, !.label = label, !.target = target]

ErrInvalidTheme == NewErr("invalid theme")
ErrRequestTooLarge == NewErr("request too large")
ErrPanic == NewErr("syntect panic while highlighting")
ErrInternal == NewErr("gosyntect internal error: resource_not_found")
ErrUnknown(error, code) == [NewErr("unknown error") EXCEPT !.error = error, !.code = code]

----------------------------------------------------------------------------
(* type Response *)

NilResponse ==
    [nil |-> TRUE, Data |-> "", Plaintext |-> FALSE, DetectedLanguage |-> "",
     ScopifiedScopeNames |-> <<>>, ScopifiedRegions |-> <<>>]

\* variant: the mapping keyed from 1 instead of 0
toSuccessResponseOneBased(r) ==
    [nil |-> FALSE, Data |-> r.Data, Plaintext |-> r.Plaintext,
     DetectedLanguage |-> r.DetectedLanguage,
     ScopifiedScopeNames |-> [index \in 1..Len(r.ScopifiedScopeNames) |-> r.ScopifiedScopeNames[index]],
     ScopifiedRegions |-> r.ScopifiedRegions]

\* range over a Go slice gives the indexes 0..len-1
toSuccessResponse(r) ==
    [nil |-> FALSE, Data |-> r.Data, Plaintext |-> r.Plaintext,
     DetectedLanguage |-> r.DetectedLanguage,
     ScopifiedScopeNames |->
        [index \in 0..(Len(r.ScopifiedScopeNames) - 1) |-> r.ScopifiedScopeNames[index + 1]],
     ScopifiedRegions |-> r.ScopifiedRegions]

----------------------------------------------------------------------------
(* type Client *)

NoClient == [made |-> FALSE, syntectServer |-> <<>>]

\* variant: the address stored as given
NewUntrimmed(syntectServer) == [made |-> TRUE, syntectServer |-> syntectServer]

New(syntectServer) == [made |-> TRUE, syntectServer |-> TrimSuffix(syntectServer, <<"/">>)]

Url(c, path) == c.syntectServer \o path

----------------------------------------------------------------------------
(* Client.Highlight *)

NoRequest == [method |-> "", url |-> <<>>, contentType |-> "", ctx |-> "Background"]

\* http.NewRequest: a request bound to the background context
NewRequest(method, url) == [method |-> method, url |-> url, contentType |-> "", ctx |-> "Background"]

\* variant: the request left on the background context
WithContextDropped(r, c) == r

\* req.WithContext(ctx)
WithContext(r, c) == [r EXCEPT !.ctx = c]

\* ctx.Err(): "active" stands for nil
CtxErr(c, state) == IF c = "Background" THEN "active" ELSE state

\* variant: the test made against 413 Request Entity Too Large
IsBadRequestEntityTooLarge(status) == status = 413

IsBadRequest(status) == status = StatusBadRequest

\* variant: a code alone taken for a failure
HasErrorOrCode(r) == r.Error # "" \/ r.Code # ""

HasError(r) == r.Error # ""

\* variant: the codes matched loosely (casing, surrounding space)
ErrorForCodeFolded(error, code) ==
    IF code \in {"invalid_theme", "Invalid_Theme"} THEN ErrInvalidTheme
    ELSE IF code = "resource_not_found" THEN ErrInternal
    ELSE IF code \in {"panic", " panic"} THEN ErrPanic
    ELSE ErrUnknown(error, code)

\* the switch on r.Code
ErrorForCode(error, code) ==
    IF code = "invalid_theme" THEN ErrInvalidTheme
    ELSE IF code = "resource_not_found" THEN ErrInternal
    ELSE IF code = "panic" THEN ErrPanic
    ELSE ErrUnknown(error, code)

Result(response, error, dec) == [resp |-> response, err |-> error, decoded |-> dec]

\* Highlight from the return of client.Do on: t is what client.Do returned,
\* readErr the error of reading the body ("active": none), c the client, u the
\* request's URL
HighlightResult(t, readErr, c, u) ==
    IF t.kind = "err"
    THEN Result(NilResponse, Wrap(NewErr(t.cause), "making request to ", u), "no")
    ELSE IF IsBadRequest(t.status)
    THEN Result(NilResponse, ErrRequestTooLarge, "no")
    ELSE IF readErr # "active"
    THEN Result(NilResponse, Wrap(NewErr(readErr), "decoding JSON response from ", u), "failed")
    ELSE IF ~t.valid
    THEN Result(NilResponse, Wrap(NewErr("json syntax"), "decoding JSON response from ", u), "failed")
    ELSE IF HasError(t.body)
    THEN Result(NilResponse, Wrap(ErrorForCode(t.body.Error, t.body.Code), "", c.syntectServer), "ok")
    ELSE Result(toSuccessResponse(t.body), NilErr, "ok")

----------------------------------------------------------------------------
(* main: rendering *)

RECURSIVE Escape(_)
\* the escapes of Go's %q for the characters of the inputs
Escape(s) ==
    IF s = <<>> THEN <<>>
    ELSE (IF Head(s) \in {"\"", "\\"} THEN <<"\\", Head(s)>> ELSE <<Head(s)>>) \o Escape(Tail(s))

\* fmt's %q
Quote(s) == <<"\"">> \o Escape(s) \o <<"\"">>

RECURSIVE Join(_, _)
\* strings.Join
Join(elems, sep) ==
    IF elems = <<>> THEN <<>>
    ELSE IF Len(elems) = 1 THEN <<elems[1]>>
    ELSE <<elems[1], sep>> \o Join(Tail(elems), sep)

\* indexing a Go map: the zero value for a missing key
MapIndex(m, key) == IF key \in DOMAIN m THEN m[key] ELSE ""

\* whether code[region.Offset : region.Offset+region.Length] is a valid slice
SliceInRange(code, region) ==
    /\ 0 <= region.Offset
    /\ 0 <= region.Length
    /\ region.Offset + region.Length <= Len(code)

\* variant: the substring printed with %s instead of %q
RegionLineUnquoted(code, names, region) ==
    SubSeq(code, region.Offset + 1, region.Offset + region.Length)
        \o <<" - ">>
        \o Join([i \in 1..Len(region.Scopes) |-> MapIndex(names, region.Scopes[i])], " ")

\* the line printed for one region: Printf("%q - %s\n", ...)
RegionLine(code, names, region) ==
    Quote(SubSeq(code, region.Offset + 1, region.Offset + region.Length))
        \o <<" - ">>
        \o Join([i \in 1..Len(region.Scopes) |-> MapIndex(names, region.Scopes[i])], " ")

RECURSIVE RegionLines(_, _, _)
\* the loop over resp.ScopifiedRegions: the lines printed, and whether a slice
\* out of range stopped it
RegionLines(code, names, regions) ==
    IF regions = <<>> THEN [lines |-> <<>>, panicked |-> FALSE]
    ELSE IF ~SliceInRange(code, Head(regions)) THEN [lines |-> <<>>, panicked |-> TRUE]
    ELSE LET rest == RegionLines(code, names, Tail(regions))
         IN  [lines |-> <<RegionLine(code, names, Head(regions))>> \o rest.lines,
              panicked |-> rest.panicked]

\* main's choice between the two output shapes
PrintsData(q, response) == response.Data # ""

\* what main writes for a response
Output(q, response) ==
    IF PrintsData(q, response)
    THEN [lines |-> <<<<response.Data>>>>, panicked |-> FALSE]
    ELSE RegionLines(q.Code, response.ScopifiedScopeNames, response.ScopifiedRegions)

----------------------------------------------------------------------------
(* The state machine *)

NoQuery == [Theme |-> "", Scopify |-> FALSE, Code |-> <<>>]

PCs == {"start", "new", "call", "inflight", "responded", "returned",
        "usage", "fatal", "exit", "panic"}

Init ==
    /\ pc = "start"
    /\ caller = "none"
    /\ server = <<>>
    /\ client = NoClient
    /\ query = NoQuery
    /\ ctx = "Background"
    /\ ctxState = "active"
    /\ req = NoRequest
    /\ tr = NoTransport
    /\ doneCtx = "active"
    /\ decoded = "no"
    /\ resp = NilResponse
    /\ err = NilErr
    /\ out = <<>>

\* main up to the call of Highlight: the arguments, the file, the query, New
MainStart(scopifyFlag, args) ==
    /\ pc = "start"
    /\ caller' = "main"
    /\ IF (~scopifyFlag /\ Len(args) # 3) \/ (scopifyFlag /\ Len(args) # 2)
       THEN /\ pc' = "usage"
            /\ UNCHANGED <<server, client, query>>
       ELSE LET file == IF scopifyFlag THEN args[2] ELSE args[3]
                theme == IF scopifyFlag THEN "" ELSE args[2]
            IN  /\ server' = args[1]
                /\ IF ~HasPrefix(args[1], Http) /\ ~HasPrefix(args[1], Https)
                   THEN pc' = "fatal" /\ UNCHANGED <<client, query>>
                   ELSE IF ~scopifyFlag /\ theme = ""
                   THEN pc' = "fatal" /\ UNCHANGED <<client, query>>
                   ELSE IF ~FileExists(file)
                   THEN pc' = "fatal" /\ UNCHANGED <<client, query>>
                   ELSE /\ query' = [Theme |-> theme, Scopify |-> scopifyFlag,
                                     Code |-> FileContents(file)]
                        /\ client' = New(args[1])
                        /\ pc' = "call"
    /\ ctx' = "Background"
    /\ UNCHANGED <<ctxState, req, tr, doneCtx, decoded, resp, err, out>>

\* a library caller builds a client
LibNew(address) ==
    /\ pc = "start"
    /\ caller' = "lib"
    /\ server' = address
    /\ client' = New(address)
    /\ pc' = "new"
    /\ UNCHANGED <<query, ctx, ctxState, req, tr, doneCtx, decoded, resp, err, out>>

\* a library caller calls Highlight with a query and its own cancellable context
LibHighlight(scopify) ==
    /\ pc = "new"
    /\ query' = [Theme |-> IF scopify THEN "" ELSE "InspiredGitHub",
                 Scopify |-> scopify, Code |-> FileContents("x.go")]
    /\ ctx' = "Caller"
    /\ pc' = "call"
    /\ UNCHANGED <<caller, server, client, ctxState, req, tr, doneCtx, decoded, resp, err, out>>

\* the caller cancels its context, or the context's deadline passes
Cancel(reason) ==
    /\ pc \in {"call", "inflight", "responded"}
    /\ ctx = "Caller"
    /\ ctxState = "active"
    /\ ctxState' = reason
    /\ UNCHANGED <<pc, caller, server, client, query, ctx, req, tr, doneCtx, decoded, resp, err, out>>

\* Highlight up to client.Do: the request
HighlightSend ==
    /\ pc = "call"
    /\ req' = WithContext([NewRequest("POST", Url(client, <<"/">>))
                             EXCEPT !.contentType = "application/json"], ctx)
    /\ pc' = "inflight"
    /\ UNCHANGED <<caller, server, client, query, ctx, ctxState, tr, doneCtx, decoded, resp, err, out>>

\* client.Do returns: the error of the request's context if it is done, else
\* whatever the network and the service give
RoundTrip ==
    /\ pc = "inflight"
    /\ IF CtxErr(req.ctx, ctxState) # "active"
       THEN tr' = TransportError(CtxErr(req.ctx, ctxState))
       ELSE \E o \in Outcomes : tr' = o
    /\ doneCtx' = CtxErr(ctx, ctxState)
    /\ pc' = "responded"
    /\ UNCHANGED <<caller, server, client, query, ctx, ctxState, req, decoded, resp, err, out>>

\* Highlight from the return of client.Do to its own return; reading the body
\* of a request whose context is done may fail with the context's error
HighlightFinish ==
    /\ pc = "responded"
    /\ \E readErr \in {"active", CtxErr(req.ctx, ctxState)} :
          LET res == HighlightResult(tr, readErr, client, req.url)
          IN  /\ resp' = res.resp
              /\ err' = res.err
              /\ decoded' = res.decoded
    /\ pc' = "returned"
    /\ UNCHANGED <<caller, server, client, query, ctx, ctxState, req, tr, doneCtx, out>>

\* main after Highlight: log.Fatal on an error, else the output
MainOutput ==
    /\ pc = "returned"
    /\ caller = "main"
    /\ IF ~IsNil(err)
       THEN pc' = "fatal" /\ out' = out
       ELSE LET o == Output(query, resp)
            IN  /\ out' = o.lines
                /\ pc' = IF o.panicked THEN "panic" ELSE "exit"
    /\ UNCHANGED <<caller, server, client, query, ctx, ctxState, req, tr, doneCtx, decoded, resp, err>>

Next ==
    \/ \E scopifyFlag \in BOOLEAN, args \in ArgLists : MainStart(scopifyFlag, args)
    \/ \E address \in LibServers : LibNew(address)
    \/ \E scopify \in BOOLEAN : LibHighlight(scopify)
    \/ \E reason \in {"context canceled", "context deadline exceeded"} : Cancel(reason)
    \/ HighlightSend
    \/ RoundTrip
    \/ HighlightFinish
    \/ MainOutput

Spec == Init /\ [][Next]_vars

----------------------------------------------------------------------------
(* The claims *)

\* Highlight has returned
Returned == pc \in {"returned", "exit", "panic"} \/ (pc = "fatal" /\ ~IsNil(err))

\* Highlight has built its request
Sent == req.method = "POST"

EndsInSlash(s) == Len(s) > 0 /\ s[Len(s)] = "/"

\* C1: for every response whose HTTP status is 400, Highlight returns the
\* request-too-large error and no Response, and the body never goes through
\* the decoder, whatever the body holds.
C1_BadRequestIsTooLarge ==
    (Returned /\ tr.kind = "resp" /\ tr.status = 400) =>
        /\ resp.nil
        /\ err.cause = "request too large"
        /\ decoded = "no"

\* a 400 whose body is a well-formed record with an error text and the code invalid_theme
C1_Witness ==
    /\ Returned
    /\ tr.kind = "resp" /\ tr.status = 400
    /\ tr.valid /\ tr.body.Error # "" /\ tr.body.Code = "invalid_theme"
    /\ err.cause = "request too large"

\* C2: for every decoded response with a non-empty error text, Highlight fails
\* and the error kind is chosen by exact equality on the code: invalid_theme,
\* resource_not_found and panic give their own kinds, every other code the
\* unknown-code error that embeds the error text and the code.
C2_CodeSelectsKind ==
    (Returned /\ decoded = "ok" /\ tr.body.Error # "") =>
        /\ resp.nil
        /\ ~IsNil(err)
        /\ tr.body.Code = "invalid_theme" => err.cause = "invalid theme"
        /\ tr.body.Code = "resource_not_found" =>
              err.cause = "gosyntect internal error: resource_not_found"
        /\ tr.body.Code = "panic" => err.cause = "syntect panic while highlighting"
        /\ tr.body.Code \notin {"invalid_theme", "resource_not_found", "panic"} =>
              /\ err.cause = "unknown error"
              /\ err.error = tr.body.Error
              /\ err.code = tr.body.Code

\* a casing variant of a known code falls through to the unknown-code error
C2_Witness ==
    /\ Returned /\ decoded = "ok"
    /\ tr.body.Error # "" /\ tr.body.Code = "Invalid_Theme"
    /\ err.cause = "unknown error" /\ err.code = "Invalid_Theme"

\* C3: every error Highlight returns is wrapped with the service address the
\* client was configured with.
C3_EveryErrorNamesServer ==
    (Returned /\ ~IsNil(err)) =>
        /\ err.wrapped
        /\ HasPrefix(err.target, client.syntectServer)

\* C4: a returned Response is the projection of the wire record: the mapping
\* has exactly the keys 0..n-1, key i holding the i-th list entry, and Data,
\* Plaintext, DetectedLanguage and the regions are the wire record's.
C4_ResponseIsProjection ==
    (Returned /\ ~resp.nil) =>
        LET w == tr.body
            n == Len(w.ScopifiedScopeNames)
        IN  /\ DOMAIN resp.ScopifiedScopeNames = 0..(n - 1)
            /\ \A i \in 0..(n - 1) : resp.ScopifiedScopeNames[i] = w.ScopifiedScopeNames[i + 1]
            /\ resp.Data = w.Data
            /\ resp.Plaintext = w.Plaintext
            /\ resp.DetectedLanguage = w.DetectedLanguage
            /\ resp.ScopifiedRegions = w.ScopifiedRegions

\* a success with several scope names and two different regions
C4_Witness ==
    /\ Returned /\ ~resp.nil
    /\ Len(tr.body.ScopifiedScopeNames) >= 2
    /\ resp.ScopifiedScopeNames[0] = "comment"
    /\ Len(resp.ScopifiedRegions) >= 2
    /\ resp.ScopifiedRegions[1] # resp.ScopifiedRegions[2]

\* C5 as stated: the stored address never ends in "/" and every call posts to
\* the stored address followed by "/".
C5_StoredNeverEndsInSlash ==
    client.made =>
        /\ ~EndsInSlash(client.syntectServer)
        /\ Sent => req.url = client.syntectServer \o <<"/">>

\* C5, amended: New strips one trailing "/" from the configured address (and
\* no more), every call posts to the stored address followed by "/", so an
\* address A without a trailing "/" and A followed by "/" both post to A
\* followed by "/"; the stored address ends in "/" only if the configured one
\* ended in "//".
C5_OneSlashStripped ==
    client.made =>
        /\ client.syntectServer =
              IF EndsInSlash(server) THEN SubSeq(server, 1, Len(server) - 1) ELSE server
        /\ EndsInSlash(client.syntectServer) =>
              (Len(server) >= 2 /\ server[Len(server)] = "/" /\ server[Len(server) - 1] = "/")
        /\ Sent =>
              /\ req.url = client.syntectServer \o <<"/">>
              /\ req.url = IF EndsInSlash(server) THEN server ELSE server \o <<"/">>

\* a request of a client configured with an address ending in one "/"
C5_Witness ==
    /\ client.made /\ Sent
    /\ EndsInSlash(server)
    /\ ~EndsInSlash(client.syntectServer)
    /\ req.url = server

\* C6: if the caller's context is cancelled or expired when the round trip
\* ends, Highlight returns that cancellation error, which is none of the
\* service-reported kinds, and no Response.
C6_CancelledIsError ==
    (Returned /\ doneCtx # "active") =>
        /\ resp.nil
        /\ err.cause \in {"context canceled", "context deadline exceeded"}
        /\ err.cause = doneCtx

\* a call cancelled in flight has returned
C6_Witness ==
    /\ Returned
    /\ doneCtx = "context canceled"
    /\ err.cause = "context canceled"
    /\ resp.nil

\* the scope names a region's indexes resolve to, joined by single spaces
C7_Names(names, scopes) ==
    [j \in 1..(2 * Len(scopes) - 1) |->
        IF j % 2 = 0 THEN " "
        ELSE LET k == scopes[(j + 1) \div 2]
             IN  IF k \in DOMAIN names THEN names[k] ELSE ""]

RECURSIVE C7_Escaped(_, _, _)
\* the bytes code[from+1 .. from+n] with \ before every " and \
C7_Escaped(code, from, n) ==
    IF n = 0 THEN <<>>
    ELSE LET c == code[from + 1]
         IN  (IF c = "\"" \/ c = "\\" THEN <<"\\", c>> ELSE <<c>>)
                 \o C7_Escaped(code, from + 1, n - 1)

C7_Quoted(code, region) ==
    <<"\"">> \o C7_Escaped(code, region.Offset, region.Length) \o <<"\"">>

C7_Example ==
    /\ query.Code = <<"/", "/", " ", "x">>
    /\ DOMAIN resp.ScopifiedScopeNames = 0..2
    /\ resp.ScopifiedScopeNames[0] = "comment"
    /\ resp.ScopifiedScopeNames[1] = "string"
    /\ resp.ScopifiedScopeNames[2] = "keyword"

C7_ExampleRegion == [Offset |-> 0, Length |-> 3, Scopes |-> <<1>>]

C8_HighlightShape ==
    (Returned /\ ~resp.nil) =>
        /\ ~query.Scopify =>
              /\ resp.DetectedLanguage # ""
              /\ resp.Data # ""
              /\ DOMAIN resp.ScopifiedScopeNames = {}
              /\ Len(resp.ScopifiedRegions) = 0
        /\ ~(resp.Data # "" /\ Len(resp.ScopifiedRegions) > 0)

\* C9: the requested mode decides main's output: without -scopify the Data
\* payload and never a region listing, with -scopify the region listing and
\* never the Data payload.
C9_ModeDecidesOutput ==
    (pc \in {"exit", "panic"} /\ caller = "main") =>
        out = IF query.Scopify
              THEN RegionLines(query.Code, resp.ScopifiedScopeNames, resp.ScopifiedRegions).lines
              ELSE << <<resp.Data>> >>

\* C10: Highlight returns exactly one of a Response and an error, and a
\* Response exactly when the transport delivered a response, the status is
\* not 400, the body decoded and the decoded error text is empty, whatever
\* the code.
C10_ResponseXorError ==
    Returned =>
        /\ resp.nil <=> ~IsNil(err)
        /\ ~resp.nil <=>
              /\ tr.kind = "resp"
              /\ tr.status # 400
              /\ tr.valid
              /\ decoded = "ok"
              /\ tr.body.Error = ""

\* a record with no error text and the code panic is returned as a success
C10_Witness ==
    /\ Returned
    /\ ~resp.nil /\ IsNil(err)
    /\ tr.body.Error = "" /\ tr.body.Code = "panic"

====
